---- MODULE Spec2Model ----
(***************************************************************************)
(* Model of the mining prediction service of src/agent.py: the response   *)
(* parser parse_agent_response, the request handler predict_and_recommend *)
(* (readiness gate, session creation, agent event stream, parse, reply)   *)
(* and the session deletion handler end_session.                          *)
(*                                                                         *)
(* Text is modelled as a sequence of lines.  A line is a record           *)
(*   [k, label, val]  with  k \in {"end","start","field","title","prose"} *)
(*   "end"    the line  ---END_ANALYSIS---                                 *)
(*   "start"  the line  ---START_RECOMMENDATION---                         *)
(*   "field"  the line  <label>: <val>                                     *)
(*   "title"  the line  Rekomendasi <label>: <val>  (label: the number)   *)
(*   "prose"  a line <val> that holds no label and no delimiter            *)
(* and val is a string of characters, a sequence of one-character strings.*)
(* Values are not empty and do not start with white space, so that the    *)
(* \s* of the patterns never runs over a line break.                      *)
(***************************************************************************)
EXTENDS Integers, Sequences, FiniteSets, TLC

\* ------------------------------------------------------------------ strings

Digits == {"0", "1", "2", "3", "4", "5", "6", "7", "8", "9"}

DigitVal(c) ==
  CASE c = "0" -> 0 [] c = "1" -> 1 [] c = "2" -> 2 [] c = "3" -> 3
    [] c = "4" -> 4 [] c = "5" -> 5 [] c = "6" -> 6 [] c = "7" -> 7
    [] c = "8" -> 8 [] c = "9" -> 9

\* Whether s starts with the characters of p.
StartsWith(s, p) == Len(s) >= Len(p) /\ SubSeq(s, 1, Len(p)) = p

\* str.replace(p, ''): every non-overlapping occurrence of p, left to right.
RECURSIVE Remove(_, _)
Remove(s, p) ==
  IF s = <<>> THEN <<>>
  ELSE IF StartsWith(s, p) THEN Remove(SubSeq(s, Len(p) + 1, Len(s)), p)
  ELSE <<Head(s)>> \o Remove(Tail(s), p)

RECURSIVE LStrip(_)
LStrip(s) == IF s # <<>> /\ Head(s) = " " THEN LStrip(Tail(s)) ELSE s

RECURSIVE RStrip(_)
RStrip(s) ==
  IF s # <<>> /\ s[Len(s)] = " " THEN RStrip(SubSeq(s, 1, Len(s) - 1)) ELSE s

\* str.strip()
Strip(s) == RStrip(LStrip(s))

\* The text the group ([\d\.]+) captures at the start of s: the longest prefix
\* of digits and dots (empty: the pattern does not match here).
RECURSIVE NumPrefix(_)
NumPrefix(s) ==
  IF s # <<>> /\ Head(s) \in Digits \cup {"."}
  THEN <<Head(s)>> \o NumPrefix(Tail(s))
  ELSE <<>>

\* ------------------------------------------------------------------ numbers
\* A decimal number is <<m, e>>, standing for m / 10^e, with e the least
\* possible: float("75.50") = float("75.5") = <<755, 1>>.

RECURSIVE Pow10(_)
Pow10(n) == IF n = 0 THEN 1 ELSE 10 * Pow10(n - 1)

RECURSIVE Normalize(_, _)
Normalize(m, e) ==
  IF e > 0 /\ m % 10 = 0 THEN Normalize(m \div 10, e - 1) ELSE <<m, e>>

RECURSIVE DigitsVal(_)
DigitsVal(s) ==
  IF s = <<>> THEN 0 ELSE DigitsVal(SubSeq(s, 1, Len(s) - 1)) * 10 + DigitVal(s[Len(s)])

CountOf(s, c) == Cardinality({i \in 1..Len(s) : s[i] = c})

\* Whether float(s) returns: s is a decimal numeral, digits with at most one
\* dot and at least one digit.  Anything else raises ValueError.
FloatOk(s) ==
  /\ \A i \in 1..Len(s) : s[i] \in Digits \cup {"."}
  /\ CountOf(s, ".") <= 1
  /\ \E i \in 1..Len(s) : s[i] \in Digits

\* float(s) for a numeral s.
PyFloat(s) ==
  LET ds == SelectSeq(s, LAMBDA c : c \in Digits)
      dot == IF CountOf(s, ".") = 0 THEN Len(s) + 1
             ELSE CHOOSE i \in 1..Len(s) : s[i] = "."
      frac == IF dot > Len(s) THEN 0 ELSE Len(s) - dot
  IN Normalize(DigitsVal(ds), frac)

\* int(x) of a non-negative float: truncation.
PyInt(x) == x[1] \div Pow10(x[2])

\* ------------------------------------------------------------------ lines

EndLine == [k |-> "end", label |-> "", val |-> <<>>]
StartLine == [k |-> "start", label |-> "", val |-> <<>>]
Field(l, v) == [k |-> "field", label |-> l, val |-> v]
Title(n, v) == [k |-> "title", label |-> n, val |-> v]
Prose(v) == [k |-> "prose", label |-> "", val |-> v]

\* A line that str.strip() removes at the ends of a text.
IsBlank(l) == l.k = "prose" /\ Strip(l.val) = <<>>

RECURSIVE StripLines(_)
StripLines(ls) ==
  IF ls # <<>> /\ IsBlank(Head(ls)) THEN StripLines(Tail(ls))
  ELSE IF ls # <<>> /\ IsBlank(ls[Len(ls)]) THEN StripLines(SubSeq(ls, 1, Len(ls) - 1))
  ELSE ls

\* The index of the first line of kind k in ls, 0 when there is none.
FirstOf(ls, k) ==
  IF \E i \in 1..Len(ls) : ls[i].k = k
  THEN CHOOSE i \in 1..Len(ls) : ls[i].k = k /\ \A j \in 1..(i - 1) : ls[j].k # k
  ELSE 0

\* str.split(sep) on the lines of kind k: the pieces between them, in order.
RECURSIVE SplitOn(_, _)
SplitOn(ls, k) ==
  LET i == FirstOf(ls, k)
  IN IF i = 0 THEN <<ls>>
     ELSE <<SubSeq(ls, 1, i - 1)>> \o SplitOn(SubSeq(ls, i + 1, Len(ls)), k)

\* ------------------------------------------------------------------ values
\* A value of the returned record: an int, a float or a str.

IntV(n) == [t |-> "int", n |-> n, e |-> 0, s |-> <<>>]
FloatV(x) == [t |-> "float", n |-> x[1], e |-> x[2], s |-> <<>>]
StrV(s) == [t |-> "str", n |-> 0, e |-> 0, s |-> s]

\* ------------------------------------------------------------------ parser

\* re.search(label + r':\s*([\d\.]+)', part): the captured text of the first
\* line that carries the label and a value starting with a digit or a dot;
\* <<>> stands for no match.
SearchNumber(label, part) ==
  LET hit(l) == l.k = "field" /\ l.label = label /\ NumPrefix(l.val) # <<>>
  IN IF \E i \in 1..Len(part) : hit(part[i])
     THEN NumPrefix(part[CHOOSE i \in 1..Len(part) :
                          hit(part[i]) /\ \A j \in 1..(i - 1) : ~hit(part[j])].val)
     ELSE <<>>

AnalysisLabels == {"Target_Tonase_Ekstrak", "Prediksi_Kontrol", "Selisih_Kontrol"}

\* re.sub of the labelled numbers by '', then strip: what is left of the
\* analysis section.
AnalysisText(part) ==
  LET sub(l) == IF l.k = "field" /\ l.label \in AnalysisLabels /\ NumPrefix(l.val) # <<>>
                THEN Prose(SubSeq(l.val, Len(NumPrefix(l.val)) + 1, Len(l.val)))
                ELSE l
  IN StripLines([i \in 1..Len(part) |-> sub(part[i])])

RecLabels == {"Truk", "Ekskavator", "Operator", "Cuaca", "Prediksi", "Selisih", "Alasan"}

mapping ==
  [l \in RecLabels |->
     CASE l = "Truk" -> "trucks" [] l = "Ekskavator" -> "excavators"
       [] l = "Operator" -> "operators" [] l = "Cuaca" -> "weather"
       [] l = "Prediksi" -> "predicted_tonnage"
       [] l = "Selisih" -> "difference_from_target" [] l = "Alasan" -> "rationale"]

\* value.replace('Ton', '').replace(',', '').strip()
CleanedValue(value) == Strip(Remove(Remove(value, <<"T", "o", "n">>), <<",">>))

\* The value stored under python_key: int(float(.)) or float(.), and the
\* cleaned string itself for the other keys and after a ValueError.
Coerce(python_key, cleaned_value) ==
  IF python_key \in {"trucks", "excavators", "operators"}
  THEN IF FloatOk(cleaned_value) THEN IntV(PyInt(PyFloat(cleaned_value)))
       ELSE StrV(cleaned_value)
  ELSE IF python_key \in {"predicted_tonnage", "difference_from_target"}
  THEN IF FloatOk(cleaned_value) THEN FloatV(PyFloat(cleaned_value))
       ELSE StrV(cleaned_value)
  ELSE StrV(cleaned_value)

\* "Rekomendasi Tanpa Judul"
DefaultTitle ==
  <<"R", "e", "k", "o", "m", "e", "n", "d", "a", "s", "i", " ",
    "T", "a", "n", "p", "a", " ", "J", "u", "d", "u", "l">>

\* The title of a block: the rest of the first line "Rekomendasi <digit>: ..."
TitleOf(rec_block) ==
  LET hit(l) == l.k = "title" /\ l.label \in Digits
  IN IF \E i \in 1..Len(rec_block) : hit(rec_block[i])
     THEN Strip(rec_block[CHOOSE i \in 1..Len(rec_block) :
                  hit(rec_block[i]) /\ \A j \in 1..(i - 1) : ~hit(rec_block[j])].val)
     ELSE DefaultTitle

\* re.findall of the seven labels: the labelled lines of the block, in order.
Params(rec_block) ==
  SelectSeq(rec_block, LAMBDA l : l.k = "field" /\ l.label \in RecLabels)

\* The loop over params: a later occurrence of a label replaces an earlier one.
RECURSIVE StoreParams(_, _)
StoreParams(data, params) ==
  IF params = <<>> THEN data
  ELSE LET python_key == mapping[Head(params).label]
           v == Coerce(python_key, CleanedValue(Head(params).val))
       IN StoreParams((python_key :> v) @@ data, Tail(params))

\* "Alasan tidak tersedia (Gagal parsing)."
FallbackRationale ==
  <<"A", "l", "a", "s", "a", "n", " ", "t", "i", "d", "a", "k", " ",
    "t", "e", "r", "s", "e", "d", "i", "a", " ", "(", "G", "a", "g", "a", "l", " ",
    "p", "a", "r", "s", "i", "n", "g", ")", ".">>

\* Whether the block, with its rationale set, is appended: len(data) > 1.
KeepBlock(data) == Cardinality(DOMAIN data) > 1

\* The dict of a block without the default of lines 229-230.
BlockDataNoDefault(rec_block) ==
  StoreParams("title" :> StrV(TitleOf(rec_block)), Params(rec_block))

\* The dict built from one non-empty block, rationale defaulted.
BlockData(rec_block) ==
  LET data == StoreParams("title" :> StrV(TitleOf(rec_block)), Params(rec_block))
  IN IF "rationale" \in DOMAIN data THEN data
     ELSE ("rationale" :> StrV(FallbackRationale)) @@ data

\* The loop over the blocks: recommendations_data.
RECURSIVE Recommendations(_)
Recommendations(recs_list) ==
  IF recs_list = <<>> THEN <<>>
  ELSE LET rec_block == StripLines(Head(recs_list))
           rest == Recommendations(Tail(recs_list))
       IN IF rec_block = <<>> THEN rest
          ELSE IF KeepBlock(BlockData(rec_block)) THEN <<BlockData(rec_block)>> \o rest
          ELSE rest

\* A test that takes either delimiter for the analysis delimiter.
HasAnyDelimiter(text) == \E i \in 1..Len(text) : text[i].k \in {"end", "start"}

\* Line 176: whether the text holds '---END_ANALYSIS---'.
HasDelimiter(text) == FirstOf(text, "end") # 0

\* A final test that asks for both numbers to be missing.
MissingBoth(target_tonnage, initial_prediction) ==
  target_tonnage = 0 /\ initial_prediction[1] = 0

\* Line 235: the final test on the two required numbers.
MissingSentinel(target_tonnage, initial_prediction) ==
  target_tonnage = 0 \/ initial_prediction[1] = 0

ParseError(kind) ==
  [error |-> kind, initial_analysis_text |-> <<>>, initial_prediction |-> <<0, 0>>,
   target_tonnage |-> 0, initial_difference |-> <<0, 0>>, recommendations |-> <<>>]

\* parse_agent_response(text); error is "" on success.
parse_agent_response(text) ==
  LET cut == FirstOf(text, "end")
      analysis_part == SubSeq(text, 1, cut - 1)
      recs_raw == SubSeq(text, cut + 1, Len(text))
      target_match == SearchNumber("Target_Tonase_Ekstrak", analysis_part)
      pred_match == SearchNumber("Prediksi_Kontrol", analysis_part)
      diff_match == SearchNumber("Selisih_Kontrol", analysis_part)
      number(m) == IF m = <<>> THEN <<0, 0>> ELSE PyFloat(m)
      initial_prediction == number(pred_match)
      target_tonnage == PyInt(number(target_match))
      initial_difference == number(diff_match)
  IN IF ~HasDelimiter(text) THEN ParseError("MalformedFormat")
     ELSE IF \E m \in {target_match, pred_match, diff_match} : m # <<>> /\ ~FloatOk(m)
     THEN ParseError("NumericFailure")
     ELSE IF MissingSentinel(target_tonnage, initial_prediction)
     THEN ParseError("IncompleteAnalysis")
     ELSE [error |-> "",
           initial_analysis_text |-> AnalysisText(analysis_part),
           initial_prediction |-> initial_prediction,
           target_tonnage |-> target_tonnage,
           initial_difference |-> initial_difference,
           recommendations |-> Recommendations(SplitOn(recs_raw, "start"))]

\* ------------------------------------------------------------------ service

Users == {"u1", "u2"}
Requests == {"r1", "r2"}

\* The most events one run of the agent yields, and the most parts of an event.
MaxEvents == 2
MaxParts == 2
\* The most end_session calls of a behaviour.
MaxEndCalls == 2

VARIABLES
  phase,                \* module start-up: "load_model", "init_agent", "serving"
  api_key,              \* os.getenv("GEMINI_API_KEY") is not None
  loaded_model,         \* loaded_model is not None
  mining_agent,         \* mining_agent is not None
  sessions,             \* session_service: user_id -> conversation history
  pc,                   \* where each request is
  user,                 \* data.user_id of each request
  final_response_text,  \* of each request
  parsed_data,          \* of each request
  n_events,             \* events the request has received from the agent
  finals,               \* the parts of the final events the request has received
  invoked,              \* calls of runner.run_async by each request
  seen,                 \* the history the agent was given by each request
  deleted,              \* per user, the turns of the sessions end_session removed
  end_calls,            \* end_session calls completed
  reply                 \* the last end_session reply

vars == <<phase, api_key, loaded_model, mining_agent, sessions, pc, user,
          final_response_text, parsed_data, n_events, finals, invoked, seen,
          deleted, end_calls, reply>>

NoData == ParseError("none")
NoReply == [user |-> "", status |-> ""]

\* Text fragments of the agent: an analysis section, a recommendation block,
\* and the empty text (a part without text).
T80 == Field("Target_Tonase_Ekstrak", <<"8", "0">>)
P75 == Field("Prediksi_Kontrol", <<"7", "5", ".", "5", "0">>)
Truk14 == Field("Truk", <<"1", "4">>)
FragA == <<T80, P75, EndLine>>
FragB == <<Truk14>>
Fragments == {<<>>, FragA, FragB}

RECURSIVE SeqsUpTo(_, _)
SeqsUpTo(S, n) ==
  IF n = 0 THEN {<<>>}
  ELSE LET shorter == SeqsUpTo(S, n - 1)
       IN shorter \cup {Append(q, x) : q \in {p \in shorter : Len(p) = n - 1}, x \in S}

\* An event of runner.run_async: is_final_response() and content.parts (no
\* content, or no parts: <<>>).
Events == [final : BOOLEAN, parts : SeqsUpTo(Fragments, MaxParts)]

\* The events of the specifications with concurrent requests: a final event
\* with an analysis section, a final event with a recommendation field alone,
\* and an event that is not final.
CoreEvents ==
  {[final |-> TRUE, parts |-> <<FragA>>], [final |-> TRUE, parts |-> <<FragB>>],
   [final |-> FALSE, parts |-> <<FragB>>]}

Init ==
  /\ phase = "load_model"
  /\ api_key \in BOOLEAN
  /\ loaded_model = FALSE
  /\ mining_agent = FALSE
  /\ sessions = <<>>
  /\ pc = [r \in Requests |-> "idle"]
  /\ user = [r \in Requests |-> ""]
  /\ final_response_text = [r \in Requests |-> <<>>]
  /\ parsed_data = [r \in Requests |-> NoData]
  /\ n_events = [r \in Requests |-> 0]
  /\ finals = [r \in Requests |-> <<>>]
  /\ invoked = [r \in Requests |-> 0]
  /\ seen = [r \in Requests |-> <<>>]
  /\ deleted = [u \in Users |-> {}]
  /\ end_calls = 0
  /\ reply = NoReply

\* Module start-up, lines 29-36: the model file is read, or it is not.
LoadModel ==
  /\ phase = "load_model"
  /\ \E found \in BOOLEAN : loaded_model' = found
  /\ phase' = "init_agent"
  /\ UNCHANGED <<api_key, mining_agent, sessions, pc, user, final_response_text,
                 parsed_data, n_events, finals, invoked, seen, deleted, end_calls, reply>>

\* initialize_agent(), called at line 141.
initialize_agent ==
  /\ phase = "init_agent"
  /\ mining_agent' = TRUE
  /\ phase' = "serving"
  /\ UNCHANGED <<api_key, loaded_model, sessions, pc, user, final_response_text,
                 parsed_data, n_events, finals, invoked, seen, deleted, end_calls, reply>>

\* The readiness test of predict_and_recommend, line 255.
Ready == mining_agent /\ api_key

\* predict_and_recommend, lines 253-263: the gate, then query and user_id.
Receive(r, u) ==
  /\ phase = "serving"
  /\ pc[r] = "idle"
  /\ pc' = [pc EXCEPT ![r] = IF Ready THEN "ensure" ELSE "unavailable"]
  /\ user' = [user EXCEPT ![r] = u]
  /\ UNCHANGED <<phase, api_key, loaded_model, mining_agent, sessions,
                 final_response_text, parsed_data, n_events, finals, invoked, seen,
                 deleted, end_calls, reply>>

\* session_service.create_session: a new session with an empty history, or an
\* exception when the session exists.
CreateSession(u) ==
  IF u \in DOMAIN sessions THEN sessions ELSE (u :> <<>>) @@ sessions

\* A handler that lets the exception of create_session through.
AfterCreateFatal(raised) == IF raised THEN "failed" ELSE "run"

\* Where a request goes after create_session: the exception is swallowed.
AfterCreate(raised) == "run"

\* predict_and_recommend, lines 265-270.
SessionEnsure(r) ==
  /\ pc[r] = "ensure"
  /\ sessions' = CreateSession(user[r])
  /\ pc' = [pc EXCEPT ![r] = AfterCreate(user[r] \in DOMAIN sessions)]
  /\ UNCHANGED <<phase, api_key, loaded_model, mining_agent, user,
                 final_response_text, parsed_data, n_events, finals, invoked, seen,
                 deleted, end_calls, reply>>

\* predict_and_recommend, lines 272-278: runner.run_async is called.  The
\* runner reads the session (none: it raises, and line 302 catches), gives
\* its history to the agent and appends the turn.
RunAgent(r) ==
  /\ pc[r] = "run"
  /\ invoked' = [invoked EXCEPT ![r] = @ + 1]
  /\ IF user[r] \in DOMAIN sessions
     THEN /\ seen' = [seen EXCEPT ![r] = sessions[user[r]]]
          /\ sessions' = [sessions EXCEPT ![user[r]] = Append(@, r)]
          /\ pc' = [pc EXCEPT ![r] = "stream"]
     ELSE /\ pc' = [pc EXCEPT ![r] = "failed"]
          /\ UNCHANGED <<seen, sessions>>
  /\ UNCHANGED <<phase, api_key, loaded_model, mining_agent, user,
                 final_response_text, parsed_data, n_events, finals,
                 deleted, end_calls, reply>>

\* The inner loop, lines 280-283: the text the parts of one event add.
RECURSIVE PartsText(_)
PartsText(parts) ==
  IF parts = <<>> THEN <<>>
  ELSE IF Head(parts) # <<>> THEN Head(parts)
  ELSE PartsText(Tail(parts))

\* Lines 279-283 for one event.
EventText(event) ==
  IF event.final /\ event.parts # <<>> THEN PartsText(event.parts) ELSE <<>>

\* One turn of the async for, lines 274-283.
NextEvent(r, E) ==
  /\ pc[r] = "stream"
  /\ n_events[r] < MaxEvents
  /\ \E event \in E :
       /\ final_response_text' =
            [final_response_text EXCEPT ![r] = @ \o EventText(event)]
       /\ finals' = [finals EXCEPT ![r] = IF event.final THEN Append(@, event.parts) ELSE @]
  /\ n_events' = [n_events EXCEPT ![r] = @ + 1]
  /\ UNCHANGED <<phase, api_key, loaded_model, mining_agent, sessions, pc, user,
                 parsed_data, invoked, seen, deleted, end_calls, reply>>

\* The stream ends: the async for is left.
EndStream(r) ==
  /\ pc[r] = "stream"
  /\ pc' = [pc EXCEPT ![r] = "parse"]
  /\ UNCHANGED <<phase, api_key, loaded_model, mining_agent, sessions, user,
                 final_response_text, parsed_data, n_events, finals, invoked, seen,
                 deleted, end_calls, reply>>

\* The agent raises while it runs: line 302.  The handler returns, and the
\* locals of its loop are gone.
AgentError(r) ==
  /\ pc[r] = "stream"
  /\ pc' = [pc EXCEPT ![r] = "failed"]
  /\ final_response_text' = [final_response_text EXCEPT ![r] = <<>>]
  /\ n_events' = [n_events EXCEPT ![r] = 0]
  /\ finals' = [finals EXCEPT ![r] = <<>>]
  /\ seen' = [seen EXCEPT ![r] = <<>>]
  /\ UNCHANGED <<phase, api_key, loaded_model, mining_agent, sessions, user,
                 parsed_data, invoked, deleted, end_calls, reply>>

\* RecommendationDetail, lines 144-152: every field is required; the counts
\* are int, the tonnages float, weather an int or a str, the others str.
ValidDetail(data) ==
  /\ DOMAIN data = {"title"} \cup {mapping[l] : l \in RecLabels}
  /\ \A key \in {"trucks", "excavators", "operators"} : data[key].t = "int"
  /\ \A key \in {"predicted_tonnage", "difference_from_target"} : data[key].t = "float"

\* ParsedRecommendationResponse(...), lines 293-300: the record validates.
ValidResponse(parsed) ==
  \A i \in 1..Len(parsed.recommendations) : ValidDetail(parsed.recommendations[i])

\* predict_and_recommend, lines 285-303: the empty text, the parse and the
\* response each end the request with "failed" (line 302).  The handler
\* returns: the locals of its loop are gone; the text and the parsed record
\* stay for the reply.
Parse(r) ==
  /\ pc[r] = "parse"
  /\ IF final_response_text[r] = <<>>
     THEN /\ pc' = [pc EXCEPT ![r] = "failed"]
          /\ UNCHANGED parsed_data
     ELSE /\ parsed_data' = [parsed_data EXCEPT ![r] = parse_agent_response(final_response_text[r])]
          /\ pc' = [pc EXCEPT ![r] =
                      IF parsed_data'[r].error = "" /\ ValidResponse(parsed_data'[r])
                      THEN "ok" ELSE "failed"]
  /\ n_events' = [n_events EXCEPT ![r] = 0]
  /\ finals' = [finals EXCEPT ![r] = <<>>]
  /\ seen' = [seen EXCEPT ![r] = <<>>]
  /\ UNCHANGED <<phase, api_key, loaded_model, mining_agent, sessions, user,
                 final_response_text, invoked, deleted, end_calls, reply>>

\* The status end_session returns: "info" when delete_session raised.
EndStatus(raised) == IF raised THEN "info" ELSE "success"

\* A delete_session that leaves the store as it is.
DeleteNothing(u) == sessions

\* session_service.delete_session: the store without the session.
DeleteSession(u) == [v \in DOMAIN sessions \ {u} |-> sessions[v]]

\* end_session, lines 306-314.  delete_session is library code: for a session
\* that does not exist it returns or raises; both are modelled.
end_session(u) ==
  /\ phase = "serving"
  /\ end_calls < MaxEndCalls
  /\ end_calls' = end_calls + 1
  /\ sessions' = DeleteSession(u)
  /\ \E raised \in BOOLEAN :
       /\ raised => u \notin DOMAIN sessions
       /\ reply' = [user |-> u, status |-> EndStatus(raised)]
  /\ deleted' = [deleted EXCEPT ![u] =
                   IF u \in DOMAIN sessions
                   THEN @ \cup {sessions[u][i] : i \in 1..Len(sessions[u])} ELSE @]
  /\ UNCHANGED <<phase, api_key, loaded_model, mining_agent, pc, user,
                 final_response_text, parsed_data, n_events, finals, invoked, seen>>

Next ==
  \/ LoadModel
  \/ initialize_agent
  \/ \E r \in Requests, u \in Users : Receive(r, u)
  \/ \E r \in Requests : SessionEnsure(r)
  \/ \E r \in Requests : RunAgent(r)
  \/ \E r \in Requests : NextEvent(r, CoreEvents)
  \/ \E r \in Requests : EndStream(r)
  \/ \E r \in Requests : AgentError(r)
  \/ \E r \in Requests : Parse(r)
  \/ \E u \in Users : end_session(u)

Spec == Init /\ [][Next]_vars

\* One request and every event of Events: the event loop by itself.
NextStream ==
  \/ LoadModel
  \/ initialize_agent
  \/ \E u \in Users : Receive("r1", u)
  \/ SessionEnsure("r1")
  \/ RunAgent("r1")
  \/ NextEvent("r1", Events)
  \/ EndStream("r1")
  \/ AgentError("r1")
  \/ Parse("r1")

SpecStream == Init /\ [][NextStream]_vars

\* Prediction requests alone, in every interleaving: no end_session call.
NextRace ==
  \/ LoadModel
  \/ initialize_agent
  \/ \E r \in Requests, u \in Users : Receive(r, u)
  \/ \E r \in Requests : SessionEnsure(r)
  \/ \E r \in Requests : RunAgent(r)
  \/ \E r \in Requests : NextEvent(r, CoreEvents)
  \/ \E r \in Requests : EndStream(r)
  \/ \E r \in Requests : AgentError(r)
  \/ \E r \in Requests : Parse(r)

SpecRace == Init /\ [][NextRace]_vars

\* ------------------------------------------------------------------ parser inputs

\* The longest text of Texts, in lines, and the longest text after the
\* analysis section in BlockTexts.
MaxLines == 4
MaxBlockLines == 4

T0 == Field("Target_Tonase_Ekstrak", <<"0">>)
TDot == Field("Target_Tonase_Ekstrak", <<".">>)
P0 == Field("Prediksi_Kontrol", <<"0", ".", "0">>)
PBad == Field("Prediksi_Kontrol", <<"1", ".", "2", ".", "3">>)
D45 == Field("Selisih_Kontrol", <<"4", ".", "5", "0">>)
DBad == Field("Selisih_Kontrol", <<"4", ".", ".", "5">>)
Kontrol == Prose(<<"K", "o", "n", "t", "r", "o", "l", " ", "b", "a", "i", "k", ".">>)
Title1 == Title("1", <<"T", "a", "m", "b", "a", "h", " ", "T", "r", "u", "k">>)
TrukUnit == Field("Truk", <<"1", "4", " ", "u", "n", "i", "t">>)
PrediksiTon == Field("Prediksi", <<"1", ",", "0", "7", "9", ".", "8", "0", " ", "T", "o", "n">>)
AlasanX == Field("Alasan", <<"H", "e", "m", "a", "t">>)
Blank == Prose(<<" ">>)

\* Texts of any shape: the analysis fields with good and bad numbers, the
\* delimiters and a recommendation field, in any order.
Lines == {T0, T80, TDot, P75, P0, PBad, DBad, EndLine, StartLine, Truk14}
Texts == SeqsUpTo(Lines, MaxLines) \ {<<>>}

\* Texts with a complete analysis section, then any blocks.
Headers == {<<T80, P75, EndLine>>, <<Kontrol, P75, T80, D45, EndLine>>}
BlockLines == {StartLine, Title1, Truk14, TrukUnit, PrediksiTon, AlasanX, Blank}
BlockTexts == {h \o b : h \in Headers, b \in SeqsUpTo(BlockLines, MaxBlockLines)}

\* A request whose agent has answered, about to parse the text.
AtParse(text) ==
  /\ phase = "serving"
  /\ api_key = TRUE
  /\ loaded_model = TRUE
  /\ mining_agent = TRUE
  /\ sessions = ("u1" :> <<"r1">>)
  /\ pc = [r \in Requests |-> IF r = "r1" THEN "parse" ELSE "idle"]
  /\ user = [r \in Requests |-> IF r = "r1" THEN "u1" ELSE ""]
  /\ final_response_text = [r \in Requests |-> IF r = "r1" THEN text ELSE <<>>]
  /\ parsed_data = [r \in Requests |-> NoData]
  /\ n_events = [r \in Requests |-> IF r = "r1" THEN 1 ELSE 0]
  /\ finals = [r \in Requests |-> IF r = "r1" THEN <<<<text>>>> ELSE <<>>]
  /\ invoked = [r \in Requests |-> IF r = "r1" THEN 1 ELSE 0]
  /\ seen = [r \in Requests |-> <<>>]
  /\ deleted = [u \in Users |-> {}]
  /\ end_calls = 0
  /\ reply = NoReply

InitParse == \E text \in Texts \cup BlockTexts : AtParse(text)

NextParse == Parse("r1")

SpecParse == InitParse /\ [][NextParse]_vars

\* ------------------------------------------------------------------ rendering
\* The Strict Response Format of the agent's instruction.

DigitChar(d) == CHOOSE c \in Digits : DigitVal(c) = d

RECURSIVE IntToStr(_)
IntToStr(n) ==
  IF n < 10 THEN <<DigitChar(n)>> ELSE IntToStr(n \div 10) \o <<DigitChar(n % 10)>>

\* A number with two decimals, as the tool rounds it: 75.5 is "75.50".
FloatToStr(x) ==
  LET h == x[1] * Pow10(2 - x[2])
  IN IntToStr(h \div 100) \o <<".">> \o <<DigitChar((h \div 10) % 10), DigitChar(h % 10)>>

\* One recommendation: the title line and the seven fields.
RenderRec(i, rec) ==
  <<Title(DigitChar(i), rec.title),
    Field("Truk", IntToStr(rec.trucks)),
    Field("Ekskavator", IntToStr(rec.excavators)),
    Field("Operator", IntToStr(rec.operators)),
    Field("Cuaca", IntToStr(rec.weather)),
    Field("Prediksi", FloatToStr(rec.predicted_tonnage)),
    Field("Selisih", FloatToStr(rec.difference_from_target)),
    Field("Alasan", rec.rationale)>>

\* The recommendations, the delimiter line between one and the next.
RECURSIVE RenderRecs(_, _)
RenderRecs(i, recs) ==
  IF recs = <<>> THEN <<>>
  ELSE IF Len(recs) = 1 THEN RenderRec(i, Head(recs))
  ELSE RenderRec(i, Head(recs)) \o <<StartLine>> \o RenderRecs(i + 1, Tail(recs))

Render(a) ==
  <<Prose(a.initial_analysis_text),
    Field("Target_Tonase_Ekstrak", IntToStr(a.target_tonnage)),
    Field("Prediksi_Kontrol", FloatToStr(a.initial_prediction)),
    Field("Selisih_Kontrol", FloatToStr(a.initial_difference)),
    EndLine>> \o RenderRecs(1, a.recommendations)

\* The most recommendations of a rendered result.
MaxRecs == 2

TambahTruk == <<"T", "a", "m", "b", "a", "h", " ", "T", "r", "u", "k">>
\* "Penambahan truk mendekati target."
Penambahan ==
  <<"P", "e", "n", "a", "m", "b", "a", "h", "a", "n", " ", "t", "r", "u", "k", " ",
    "m", "e", "n", "d", "e", "k", "a", "t", "i", " ", "t", "a", "r", "g", "e", "t", ".">>
\* "Hemat, aman."
HematAman == <<"H", "e", "m", "a", "t", ",", " ", "a", "m", "a", "n", ".">>

WellFormedRecs ==
  [title : {TambahTruk}, trucks : {12, 14}, excavators : {3}, operators : {18},
   weather : {0, 1, 2}, predicted_tonnage : {<<798, 1>>},
   difference_from_target : {<<2, 1>>}, rationale : {Penambahan, HematAman}]

\* The results rendered and parsed back; the scenario of the specification
\* (target 80, 14 trucks, weather 1) is one of them.
WellFormedResults ==
  [target_tonnage : {80, 120},
   initial_analysis_text : {<<"K", "o", "n", "t", "r", "o", "l", " ", "b", "a", "i", "k", ".">>},
   initial_prediction : {<<755, 1>>}, initial_difference : {<<45, 1>>},
   recommendations : SeqsUpTo(WellFormedRecs, MaxRecs)]

InitRoundTrip == \E a \in WellFormedResults : AtParse(Render(a))

SpecRoundTrip == InitRoundTrip /\ [][NextParse]_vars

\* ------------------------------------------------------------------ claims

Done(r) == pc[r] \in {"ok", "failed"} /\ final_response_text[r] # <<>>

\* The analysis section of a text with the delimiter, and the first value
\* written for a label in it (<<>>: the label is absent).
AnalysisOf(text) == SubSeq(text, 1, FirstOf(text, "end") - 1)

FirstValue(label, part) ==
  LET at(i) == part[i].k = "field" /\ part[i].label = label
  IN IF \E i \in 1..Len(part) : at(i)
     THEN part[CHOOSE i \in 1..Len(part) : at(i) /\ \A j \in 1..(i - 1) : ~at(j)].val
     ELSE <<>>

\* Of the number a value starts with: it is zero; its integer part is not
\* zero; it is not zero; it is no numeral (two dots, or no digit).
IsZero(v) ==
  FloatOk(NumPrefix(v)) /\ \A i \in 1..Len(NumPrefix(v)) : NumPrefix(v)[i] \in {"0", "."}
NonZeroInt(v) == FloatOk(NumPrefix(v)) /\ PyInt(PyFloat(NumPrefix(v))) # 0
NonZeroFloat(v) == FloatOk(NumPrefix(v)) /\ ~IsZero(v)
NotANumber(v) == NumPrefix(v) # <<>> /\ ~FloatOk(NumPrefix(v))

TargetAbsentOrZero(text) ==
  LET v == FirstValue("Target_Tonase_Ekstrak", AnalysisOf(text))
  IN v = <<>> \/ IsZero(v)

\* The non-empty blocks after the analysis delimiter, in order.
BlocksOf(text) ==
  LET all == SplitOn(SubSeq(text, FirstOf(text, "end") + 1, Len(text)), "start")
  IN SelectSeq([i \in 1..Len(all) |-> StripLines(all[i])], LAMBDA b : b # <<>>)

HasLabel(block, l) == \E i \in 1..Len(block) : block[i].k = "field" /\ block[i].label = l

LastValue(block, l) ==
  block[CHOOSE i \in 1..Len(block) :
          /\ block[i].k = "field" /\ block[i].label = l
          /\ \A j \in (i + 1)..Len(block) : ~(block[j].k = "field" /\ block[j].label = l)].val

C5_MissingDelimiter ==
  \A r \in Requests :
    (Done(r) /\ \A i \in 1..Len(final_response_text[r]) : final_response_text[r][i].k # "end")
    => pc[r] = "failed" /\ parsed_data[r] = ParseError("MalformedFormat")

\* C5 witness: a parsed text with both required fields, a recommendation
\* delimiter and a recommendation field, and no analysis delimiter.
C5_Witness ==
  \E r \in Requests :
    /\ Done(r)
    /\ \A i \in 1..Len(final_response_text[r]) : final_response_text[r][i].k # "end"
    /\ \E i, j, k \in 1..Len(final_response_text[r]) :
         /\ final_response_text[r][i] = T80
         /\ final_response_text[r][j] = P75
         /\ final_response_text[r][k] = StartLine
    /\ parsed_data[r].error = "MalformedFormat"

C9_SpuriousBlock ==
  \A r \in Requests :
    (Done(r) /\ parsed_data[r].error = "")
    => LET bs == BlocksOf(final_response_text[r])
       IN Len(parsed_data[r].recommendations) =
            Cardinality({i \in 1..Len(bs) : Params(bs[i]) # <<>>})

\* The record a well-formed result is parsed back to, as C2 states it.
SameRec(rec, data) ==
  /\ DOMAIN data = {"title", "trucks", "excavators", "operators", "weather",
                    "predicted_tonnage", "difference_from_target", "rationale"}
  /\ data["title"] = StrV(rec.title)
  /\ data["trucks"] = IntV(rec.trucks)
  /\ data["excavators"] = IntV(rec.excavators)
  /\ data["operators"] = IntV(rec.operators)
  /\ data["weather"] = IntV(rec.weather)
  /\ data["predicted_tonnage"] = FloatV(rec.predicted_tonnage)
  /\ data["difference_from_target"] = FloatV(rec.difference_from_target)
  /\ data["rationale"] = StrV(rec.rationale)

\* C2: a well-formed result, rendered in the Strict Response Format and
\* parsed, gives back its target, prediction and difference and its
\* recommendations, in number, order and every field, weather as an integer.
C2_RoundTrip ==
  \A r \in Requests : \A a \in WellFormedResults :
    (Done(r) /\ final_response_text[r] = Render(a))
    => /\ parsed_data[r].error = ""
       /\ parsed_data[r].target_tonnage = a.target_tonnage
       /\ parsed_data[r].initial_prediction = a.initial_prediction
       /\ parsed_data[r].initial_difference = a.initial_difference
       /\ Len(parsed_data[r].recommendations) = Len(a.recommendations)
       /\ \A i \in 1..Len(a.recommendations) :
            SameRec(a.recommendations[i], parsed_data[r].recommendations[i])

\* C3: no request is past the readiness gate (a session created for it, the
\* agent invoked) unless the agent and its key are there and the prediction
\* model was loaded.
C3_ReadinessGate ==
  \A r \in Requests :
    pc[r] \notin {"idle", "unavailable"} => mining_agent /\ api_key /\ loaded_model

\* C4: an end_session call returns a status and leaves no session of the
\* user; for a user without a session the status is the informational one and
\* the store is as it was.
C4_IdempotentDeletion ==
  [][end_calls' = end_calls + 1 =>
       /\ reply'.status \in {"success", "info"}
       /\ reply'.user \notin DOMAIN sessions'
       /\ reply'.user \notin DOMAIN sessions =>
            reply'.status = "info" /\ sessions' = sessions]_vars

Turns(h) == {h[i] : i \in 1..Len(h)}

\* C7: end_session(u) leaves no session of u and the sessions of the other
\* users as they were; a session a request creates has an empty history; and
\* the history the agent is given holds no turn of a deleted session of the
\* user; creating and invoking leave the sessions of the other users alone.
C7_FreshSession ==
  [][/\ end_calls' = end_calls + 1 =>
          /\ reply'.user \notin DOMAIN sessions'
          /\ \A v \in Users \ {reply'.user} :
               /\ v \in DOMAIN sessions <=> v \in DOMAIN sessions'
               /\ v \in DOMAIN sessions => sessions'[v] = sessions[v]
     /\ \A r \in Requests :
          (pc[r] = "ensure" /\ pc'[r] # "ensure") =>
            /\ user[r] \in DOMAIN sessions'
            /\ user[r] \notin DOMAIN sessions => sessions'[user[r]] = <<>>
            /\ \A v \in DOMAIN sessions : sessions'[v] = sessions[v]
     /\ \A r \in Requests :
          (pc[r] = "run" /\ pc'[r] = "stream") =>
            /\ Turns(seen'[r]) \cap deleted[user[r]] = {}
            /\ \A v \in DOMAIN sessions \ {user[r]} : sessions'[v] = sessions[v]]_vars

\* C7 witness: a request of a user whose earlier session, with the turn of a
\* finished request, was deleted: it runs on a session of its own turn alone,
\* and the agent was given an empty history; another user's session stands.
C7_Witness ==
  \E r, r0 \in Requests :
    /\ r # r0 /\ user[r] = "u1"
    /\ r0 \in deleted["u1"]
    /\ pc[r] = "stream" /\ seen[r] = <<>>
    /\ "u1" \in DOMAIN sessions /\ sessions["u1"] = <<r>>

RECURSIVE Concat(_)
Concat(parts) == IF parts = <<>> THEN <<>> ELSE Head(parts) \o Concat(Tail(parts))

\* C8: when the stream held one final event, the text handed to the parser is
\* the concatenation, in order, of all the text parts of that event.
C8_FinalEventText ==
  \A r \in Requests :
    (pc[r] = "parse" /\ Len(finals[r]) = 1)
    => final_response_text[r] = Concat(finals[r][1])

PastEnsure == {"run", "stream", "parse", "ok", "failed"}

\* C10: with prediction requests alone, in every interleaving: a request
\* fails only after it has invoked the agent (never on create_session), each
\* request past the gate invokes the agent once and no more, and once two
\* requests of one user are past SessionEnsure the user has its session.
C10_SessionEnsureRace ==
  \A r \in Requests :
    /\ invoked[r] <= 1
    /\ pc[r] \in {"stream", "parse", "ok", "failed"} => invoked[r] = 1
    /\ pc[r] \in {"idle", "unavailable", "ensure", "run"} => invoked[r] = 0
    /\ \A r2 \in Requests \ {r} :
         (user[r] = user[r2] /\ pc[r] \in PastEnsure /\ pc[r2] \in PastEnsure)
         => user[r] \in DOMAIN sessions

\* C10 witness: two requests of one user, both past SessionEnsure and before
\* the agent: the second found the session of the first.
C10_Witness ==
  \E r, r2 \in Requests :
    /\ r # r2 /\ user[r] = user[r2]
    /\ pc[r] = "run" /\ pc[r2] = "run"
    /\ sessions = (user[r] :> <<>>)

====
